---- MODULE Spec2Model ----
(***************************************************************************)
(* Model of cv_parser.py: the section segmenter (clean_section), the field *)
(* extractors (email, phone, GPA, tenure), the link resolution and record  *)
(* assembly of parse_resume, and the batch loop of process_all_pdfs.       *)
(*                                                                         *)
(* A Python str is a sequence of one-character strings.  Every regular     *)
(* expression of the source is an operator that computes what re.search /  *)
(* re.sub / re.findall compute for it: leftmost match, greedy or lazy      *)
(* quantifiers in the backtracking order of the pattern.                   *)
(***************************************************************************)
EXTENDS Integers, Sequences, FiniteSets, TLC

VARIABLES pc, text, links, year, header, next_header, result, files, idx, saved

vars == <<pc, text, links, year, header, next_header, result, files, idx, saved>>

----------------------------------------------------------------------------
(* Character classes of Python's re module, restricted to ASCII.           *)

Upper == {"A","B","C","D","E","F","G","H","I","J","K","L","M",
          "N","O","P","Q","R","S","T","U","V","W","X","Y","Z"}

Lower == {"a","b","c","d","e","f","g","h","i","j","k","l","m",
          "n","o","p","q","r","s","t","u","v","w","x","y","z"}

Digit == {"0","1","2","3","4","5","6","7","8","9"}

\* \w
WordChar == Upper \cup Lower \cup Digit \cup {"_"}

\* \s (and the characters str.strip() removes)
Space == {" ", "\n", "\t"}

NotFound == <<"N","o","t"," ","f","o","u","n","d">>

----------------------------------------------------------------------------
(* String helpers (str slices, `in`, str.strip, str.split, str.join).      *)

Min(S) == CHOOSE x \in S : \A y \in S : x <= y

Max(S) == CHOOSE x \in S : \A y \in S : x >= y

\* t[i-1:j] of Python with 1-based inclusive bounds; empty when j < i
Slice(t, i, j) == IF j < i THEN <<>> ELSE SubSeq(t, i, j)

\* the literal p stands in t at position i
LitAt(p, t, i) ==
    /\ i >= 1
    /\ i + Len(p) - 1 <= Len(t)
    /\ \A k \in 1..Len(p) : t[i + k - 1] = p[k]

\* `p in t`
Contains(t, p) == \E i \in 1..(Len(t) + 1) : LitAt(p, t, i)

\* position of the first occurrence of p in t, 0 when there is none
Find(t, p) ==
    IF Contains(t, p) THEN Min({i \in 1..(Len(t) + 1) : LitAt(p, t, i)}) ELSE 0

\* str.strip()
Strip(t) ==
    LET keep == {i \in 1..Len(t) : t[i] \notin Space}
    IN  IF keep = {} THEN <<>> ELSE SubSeq(t, Min(keep), Max(keep))

\* re.sub(r'\n+', ' ', t): each maximal run of newlines becomes one space (the
\* first newline of a run becomes the space, the others are dropped)
CollapseNewlines(t) ==
    LET marked == [i \in 1..Len(t) |->
                      IF t[i] # "\n" THEN t[i]
                      ELSE IF i > 1 /\ t[i - 1] = "\n" THEN "" ELSE " "]
        Kept(c) == c # ""
    IN  SelectSeq(marked, Kept)

\* the concatenation of the strings of a list
RECURSIVE Flatten(_)
Flatten(ss) ==
    IF ss = <<>> THEN <<>>
    ELSE IF Len(ss) = 1 THEN ss[1]
    ELSE Flatten(SubSeq(ss, 1, Len(ss) \div 2))
         \o Flatten(SubSeq(ss, Len(ss) \div 2 + 1, Len(ss)))

----------------------------------------------------------------------------
(* clean_section: the header and next_header are interpolated into the     *)
(* pattern unescaped, so they are regular expressions; of the              *)
(* metacharacters the model keeps '.', which matches any character but a   *)
(* newline.                                                                *)

\* the interpolated pattern p matches in t at position i
ReAt(p, t, i) ==
    /\ i >= 1
    /\ i + Len(p) - 1 <= Len(t)
    /\ \A k \in 1..Len(p) :
          IF p[k] = "." THEN t[i + k - 1] # "\n" ELSE t[i + k - 1] = p[k]

\* (?=\n{next_header}|\Z) at position e
LookNextHeader(nh, t, e) ==
    \/ e = Len(t) + 1
    \/ e <= Len(t) /\ t[e] = "\n" /\ ReAt(nh, t, e + 1)

\* (?=\n[A-Z][A-Z ]+\n|\Z) at position e
LookCapsLine(t, e) ==
    \/ e = Len(t) + 1
    \/ /\ e + 3 <= Len(t)
       /\ t[e] = "\n"
       /\ t[e + 1] \in Upper
       /\ \E j \in (e + 3)..Len(t) :
             /\ t[j] = "\n"
             /\ \A k \in (e + 2)..(j - 1) : t[k] \in Upper \cup {" "}

\* `if next_header`: None and '' both take the all-caps fallback
Lookahead(nh, t, e) ==
    IF nh # <<>> THEN LookNextHeader(nh, t, e) ELSE LookCapsLine(t, e)

\* re.sub(f'^{header}\s*', '', g) on a g that begins with a match of header
DropHeader(h, g) ==
    LET rest == {i \in (Len(h) + 1)..Len(g) : g[i] \notin Space}
    IN  IF rest = {} THEN <<>> ELSE SubSeq(g, Min(rest), Len(g))

clean_section(h, t, nh) ==
    LET starts == {i \in 1..(Len(t) + 1) : ReAt(h, t, i)}
    IN  IF starts = {} THEN NotFound
        ELSE LET s == Min(starts)
                 \* [\s\S]*? is lazy: the nearest position where the lookahead holds
                 e == Min({j \in (s + Len(h))..(Len(t) + 1) : Lookahead(nh, t, j)})
                 g == Slice(t, s, e - 1)
             IN  CollapseNewlines(Strip(DropHeader(h, g)))

----------------------------------------------------------------------------
(* Field extractors.                                                       *)

\* t[i], or "" (a character of no class) outside the string
Ch(t, i) == IF i >= 1 /\ i <= Len(t) THEN t[i] ELSE ""

\* last position of the maximal run of characters of class C that starts at
\* i; i - 1 when t[i] is not in C
RunEnd(t, i, C) ==
    IF Ch(t, i) \notin C THEN i - 1
    ELSE Max({j \in i..Len(t) : \A k \in i..j : t[k] \in C})

\* \b between t[i-1] and t[i]
WordBoundary(t, i) == (Ch(t, i - 1) \in WordChar) # (Ch(t, i) \in WordChar)

GPA_PREFIX == <<"G","P","A",":"," ">>

\* GPA: \d\.\d+ matches at i
GpaAt(t, i) ==
    /\ LitAt(GPA_PREFIX, t, i)
    /\ Ch(t, i + 5) \in Digit
    /\ Ch(t, i + 6) = "."
    /\ Ch(t, i + 7) \in Digit

\* Python's None: a value that is no str
None == <<"None">>

\* extract_gpa with the fallback left out: None when nothing matches
extract_gpa_None(t) ==
    LET at == {i \in 1..Len(t) : GpaAt(t, i)}
    IN  IF at = {} THEN None
        ELSE Slice(t, Min(at) + 5, RunEnd(t, Min(at) + 7, Digit))

\* extract_gpa: group 1 of the first match of GPA: (\d\.\d+)
extract_gpa(t) ==
    LET at == {i \in 1..Len(t) : GpaAt(t, i)}
    IN  IF at = {} THEN NotFound
        ELSE Slice(t, Min(at) + 5, RunEnd(t, Min(at) + 7, Digit))

\* re.sub(r'GPA: \d\.\d+', '', t): one left-to-right pass over the
\* non-overlapping matches
RECURSIVE RemoveGpa(_)
RemoveGpa(t) ==
    LET at == {i \in 1..Len(t) : GpaAt(t, i)}
    IN  IF at = {} THEN t
        ELSE Slice(t, 1, Min(at) - 1)
             \o RemoveGpa(Slice(t, RunEnd(t, Min(at) + 7, Digit) + 1, Len(t)))

CAREER_OBJECTIVE == <<"C","A","R","E","E","R"," ","O","B","J","E","C","T","I","V","E">>

\* re.sub(r'CAREER OBJECTIVE[\s\S]*', '', t)
RemoveCareerObjective(t) ==
    IF Find(t, CAREER_OBJECTIVE) = 0 THEN t
    ELSE Slice(t, 1, Find(t, CAREER_OBJECTIVE) - 1)

\* int() of a digit and of a digit string
DigitVal(c) ==
    CASE c = "0" -> 0 [] c = "1" -> 1 [] c = "2" -> 2 [] c = "3" -> 3
      [] c = "4" -> 4 [] c = "5" -> 5 [] c = "6" -> 6 [] c = "7" -> 7
      [] c = "8" -> 8 [] c = "9" -> 9

RECURSIVE IntOf(_)
IntOf(d) == IF d = <<>> THEN 0 ELSE 10 * IntOf(SubSeq(d, 1, Len(d) - 1)) + DigitVal(d[Len(d)])

\* \b\d{4} : the closing \b left out
YearAt_NoClosingBoundary(t, i) ==
    /\ \A k \in i..(i + 3) : Ch(t, k) \in Digit
    /\ WordBoundary(t, i)

\* \b\d{4}\b matches at i
YearAt(t, i) ==
    /\ \A k \in i..(i + 3) : Ch(t, k) \in Digit
    /\ WordBoundary(t, i)
    /\ WordBoundary(t, i + 4)

\* re.findall(r'\b\d{4}\b', t), as the start positions of the matches
YearPositions(t) == {i \in 1..Len(t) : YearAt(t, i)}

RECURSIVE SumYears(_, _, _)
SumYears(t, P, current_year) ==
    IF P = {} THEN 0
    ELSE LET i == Min(P)
         IN  (current_year - IntOf(SubSeq(t, i, i + 3))) + SumYears(t, P \ {i}, current_year)

\* calculate_work_experience, with datetime.now().year as a parameter
calculate_work_experience(t, current_year) ==
    LET experience_years == YearPositions(t)
        total_years == SumYears(t, experience_years, current_year)
    IN  IF experience_years # {} THEN total_years \div Cardinality(experience_years)
        ELSE total_years

EmailLocal == Upper \cup Lower \cup Digit \cup {".", "_", "%", "+", "-"}

EmailDomain == Upper \cup Lower \cup Digit \cup {".", "-"}

\* [A-Z|a-z]: the '|' is a member of the class
EmailTld == Upper \cup Lower \cup {"|"}

\* the ends (p, e) the pattern can reach from a start i: p the '.' before the
\* top-level domain, e the last character of the match
EmailEnds(t, i) ==
    LET m == RunEnd(t, i, EmailLocal)
        dm == RunEnd(t, m + 2, EmailDomain)
    IN  IF ~WordBoundary(t, i) \/ m < i \/ Ch(t, m + 1) # "@" THEN {}
        ELSE {pe \in ((m + 3)..dm) \X ((m + 3)..Len(t)) :
                /\ t[pe[1]] = "."
                /\ pe[2] >= pe[1] + 2
                /\ pe[2] <= RunEnd(t, pe[1] + 1, EmailTld)
                /\ WordBoundary(t, pe[2] + 1)}

\* the match the backtracking order finds first: the domain greedy (the last
\* '.'), then the top-level domain greedy (the longest)
EmailEnd(t, i) ==
    LET E == EmailEnds(t, i)
        p == Max({pe[1] : pe \in E})
    IN  Max({pe[2] : pe \in {x \in E : x[1] = p}})

\* re.search(email pattern, t).group(0), or 'Not found'
extract_email(t) ==
    LET at == {i \in 1..Len(t) : EmailEnds(t, i) # {}}
    IN  IF at = {} THEN NotFound ELSE Slice(t, Min(at), EmailEnd(t, Min(at)))

PhoneSep == Space \cup {".", "-"}

\* \(?\d{3}\)?[\s.-]\d{3}[\s.-]\d{4} from position j: the position of the last
\* character matched, 0 when it does not match
PhoneCore(t, j) ==
    LET a == IF Ch(t, j) = "(" THEN j + 1 ELSE j
        b == IF Ch(t, a + 3) = ")" THEN a + 4 ELSE a + 3
    IN  IF /\ \A k \in a..(a + 2) : Ch(t, k) \in Digit
           /\ Ch(t, b) \in PhoneSep
           /\ \A k \in (b + 1)..(b + 3) : Ch(t, k) \in Digit
           /\ Ch(t, b + 4) \in PhoneSep
           /\ \A k \in (b + 5)..(b + 8) : Ch(t, k) \in Digit
        THEN b + 8 ELSE 0

\* the whole phone pattern from position i: (\+\d{1,2}\s)? tried with two
\* digits, then with one, then skipped
PhoneEnd(t, i) ==
    IF /\ Ch(t, i) = "+" /\ Ch(t, i + 1) \in Digit /\ Ch(t, i + 2) \in Digit
       /\ Ch(t, i + 3) \in Space /\ PhoneCore(t, i + 4) # 0
    THEN PhoneCore(t, i + 4)
    ELSE IF /\ Ch(t, i) = "+" /\ Ch(t, i + 1) \in Digit
            /\ Ch(t, i + 2) \in Space /\ PhoneCore(t, i + 3) # 0
    THEN PhoneCore(t, i + 3)
    ELSE PhoneCore(t, i)

\* re.search(phone pattern, t).group(0), or 'Not found'
extract_phone(t) ==
    LET at == {i \in 1..Len(t) : PhoneEnd(t, i) # 0}
    IN  IF at = {} THEN NotFound ELSE Slice(t, Min(at), PhoneEnd(t, Min(at)))

----------------------------------------------------------------------------
(* parse_resume.                                                           *)

\* unidecode of one character: ASCII is kept, an accented letter is folded
\* to its base letter, a ligature to several letters
UnidecodeChar(c) ==
    CASE c = "é" -> <<"e">>
      [] c = "ß" -> <<"s","s">>
      [] OTHER -> <<c>>

unidecode(t) == Flatten([i \in 1..Len(t) |-> UnidecodeChar(t[i])])

\* text.split('\n')
RECURSIVE Split(_)
Split(t) ==
    LET nl == {i \in 1..Len(t) : t[i] = "\n"}
    IN  IF nl = {} THEN <<t>>
        ELSE <<Slice(t, 1, Min(nl) - 1)>> \o Split(Slice(t, Min(nl) + 1, Len(t)))

\* lines[0].strip(): the second line left out of the name
NameOf_FirstLine(lines) == Strip(lines[1])

\* ' '.join(lines[:2]).strip()
NameOf(lines) ==
    Strip(IF Len(lines) >= 2 THEN lines[1] \o <<" ">> \o lines[2] ELSE lines[1])

\* lines[3].strip() if len(lines) > 3 else 'Not found'
JobTitleOf(lines) == IF Len(lines) > 3 THEN Strip(lines[4]) ELSE NotFound

LINKEDIN_COM == <<"l","i","n","k","e","d","i","n",".","c","o","m">>

FACEBOOK_COM == <<"f","a","c","e","b","o","o","k",".","c","o","m">>

TWITTER_COM == <<"t","w","i","t","t","e","r",".","c","o","m">>

\* the dict social_media, in its iteration (insertion) order
social_media ==
    << [platform |-> "linkedin", url |-> LINKEDIN_COM],
       [platform |-> "facebook", url |-> FACEBOOK_COM],
       [platform |-> "twitter",  url |-> TWITTER_COM] >>

\* for platform in social_media: resume_data[platform] = 'Not found'
NoSocial == [linkedin |-> NotFound, facebook |-> NotFound, twitter |-> NotFound]

\* the inner loop without its break: every platform whose url is in the link
\* and whose field is still 'Not found' takes the link
AdoptLink_NoBreak(data, link) ==
    [p \in DOMAIN data |->
        IF /\ data[p] = NotFound
           /\ \E k \in 1..Len(social_media) :
                 social_media[k].platform = p /\ Contains(link, social_media[k].url)
        THEN link ELSE data[p]]

\* the inner loop for one link: the first platform whose url is in the link
\* and whose field is still 'Not found' takes the link, and the loop breaks
AdoptLink(data, link) ==
    LET take == {k \in 1..Len(social_media) :
                    /\ Contains(link, social_media[k].url)
                    /\ data[social_media[k].platform] = NotFound}
    IN  IF take = {} THEN data
        ELSE [data EXCEPT ![social_media[Min(take)].platform] = link]

\* for link in links: ...
RECURSIVE ResolveLinks(_, _)
ResolveLinks(data, lks) ==
    IF lks = <<>> THEN data ELSE ResolveLinks(AdoptLink(data, Head(lks)), Tail(lks))

EDUCATION == <<"E","D","U","C","A","T","I","O","N">>

SKILLS == <<"S","K","I","L","L","S">>

CERTIFICATIONS == <<"C","E","R","T","I","F","I","C","A","T","I","O","N","S">>

WORK_EXPERIENCE == <<"W","O","R","K"," ","E","X","P","E","R","I","E","N","C","E">>

PROJECTS == <<"P","R","O","J","E","C","T","S">>

\* the record parse_resume returns; the sections loop also stores 'projects'
parse_resume(raw, lks, current_year) ==
    LET t == unidecode(raw)
        lines == Split(t)
        social == ResolveLinks(NoSocial, lks)
        work_experience_section == clean_section(WORK_EXPERIENCE, t, PROJECTS)
    IN  [ name |-> NameOf(lines),
          job_title |-> JobTitleOf(lines),
          email |-> extract_email(t),
          phone |-> extract_phone(t),
          linkedin |-> social.linkedin,
          facebook |-> social.facebook,
          twitter |-> social.twitter,
          education |-> RemoveGpa(clean_section(EDUCATION, t, SKILLS)),
          skills |-> clean_section(SKILLS, t, CERTIFICATIONS),
          certifications |->
              RemoveCareerObjective(clean_section(CERTIFICATIONS, t, CAREER_OBJECTIVE)),
          projects |-> clean_section(PROJECTS, t, <<>>),
          gpa |-> extract_gpa(t),
          career_objective |-> clean_section(CAREER_OBJECTIVE, t, WORK_EXPERIENCE),
          work_experience |-> work_experience_section,
          seniority |-> calculate_work_experience(work_experience_section, current_year) ]

----------------------------------------------------------------------------
(* process_all_pdfs and the files it reads.                                *)

PDF_EXT == <<".","p","d","f">>

JSON_EXT == <<".","j","s","o","n">>

\* filename.endswith('.pdf')
EndsWithPdf(filename) ==
    /\ Len(filename) >= Len(PDF_EXT)
    /\ LitAt(PDF_EXT, filename, Len(filename) - Len(PDF_EXT) + 1)

\* os.path.splitext(filename)[0] + '.json': the extension starts at the last
\* dot that is not one of the leading dots
JsonName(filename) ==
    LET dots == {i \in 1..Len(filename) :
                    filename[i] = "." /\ \E j \in 1..(i - 1) : filename[j] # "."}
    IN  (IF dots = {} THEN filename ELSE Slice(filename, 1, Max(dots) - 1)) \o JSON_EXT

\* extract_text_from_pdf / extract_links_from_pdf raise on a file PyPDF2 cannot
\* read; nothing in process_all_pdfs catches the exception
Raises(file) == file.corrupt

----------------------------------------------------------------------------
(* Inputs.                                                                 *)

MaxLines == 3

MaxPieces == 4

MaxBlocks == 2

MaxLinks == 3

MaxFiles == 3

\* datetime.now().year
Years == {2024, 2026}

SeqsUpTo(S, n) == UNION {[1..k -> S] : k \in 0..n}

\* '\n'.join(ss)
JoinLines(ss) ==
    Flatten([i \in 1..Len(ss) |-> IF i = 1 THEN ss[i] ELSE <<"\n">> \o ss[i]])

LINE_SKILLSET == <<"S","K","I","L","L","S","E","T">>

LINE_MY_SKILLS == <<"m","y"," ","S","K","I","L","L","S">>

LINE_BS_CS == <<"B","S"," ","C","S">>

LINE_COVER == <<"C","O","V","E","R">>

CV_HEADER == <<"C",".","V",".">>

SectionLines ==
    {EDUCATION, SKILLS, LINE_SKILLSET, LINE_MY_SKILLS, LINE_BS_CS, LINE_COVER, CV_HEADER, <<>>}

Headers == {EDUCATION, CV_HEADER}

NextHeaders == {SKILLS, <<>>}

TOK_2018 == <<"2","0","1","8">>

TOK_2020 == <<"2","0","2","0">>

TOK_2031 == <<"2","0","3","1">>

TOK_20 == <<"2","0">>

TenurePieces == {TOK_2018, TOK_2020, TOK_2031, TOK_20, <<" ">>, <<"a">>, <<"_">>}

BLOCK_NAME == <<"J","a","n","e"," ","D","o","e">>

BLOCK_EDUCATION == <<"E","D","U","C","A","T","I","O","N","\n","B","S"," ","C","S","\n","G","P","A",":"," ","3",".","8">>

BLOCK_SKILLS == <<"S","K","I","L","L","S","\n","P","y","t","h","o","n">>

BLOCK_GPA_JOIN == <<"E","D","U","C","A","T","I","O","N","\n","G","P","A",":"," ","3","G","P","A",":"," ","1",".","5",".","5">>

BLOCK_PHONE_LINES == <<"5","5","5","\n","1","2","3","\n","4","5","6","7">>

BLOCK_LINKEDIN_TEXT == <<"s","e","e"," ","l","i","n","k","e","d","i","n",".","c","o","m","/","i","n","/","j","a","n","e">>

BLOCK_WORK == <<"W","O","R","K"," ","E","X","P","E","R","I","E","N","C","E","\n","A","c","m","e"," ","2","0","1","8"," ","t","o"," ","2","0","2","0">>

BLOCK_EMAIL == <<"j",".","d","o","e","@","x",".","i","o">>

BLOCK_CERTIFICATIONS == <<"C","E","R","T","I","F","I","C","A","T","I","O","N","S","\n","A","W","S","\n","C","A","R","E","E","R"," ","O","B","J","E","C","T","I","V","E","\n","G","r","o","w">>

BLOCK_PROJECTS == <<"P","R","O","J","E","C","T","S","\n","B","o","t","\n","H","O","B","B","I","E","S","\n","C","h","e","s","s">>

BLOCK_ACCENT == <<"C","a","f","é">>

ResumeBlocks ==
    {BLOCK_NAME, BLOCK_EDUCATION, BLOCK_SKILLS, BLOCK_GPA_JOIN, BLOCK_PHONE_LINES,
     BLOCK_LINKEDIN_TEXT, BLOCK_WORK, BLOCK_EMAIL, BLOCK_CERTIFICATIONS, BLOCK_PROJECTS,
     BLOCK_ACCENT, <<>>}

\* the example text of the specification's section 8
SpecExample == <<"J","a","n","e"," ","D","o","e","\n","S","o","f","t","w","a","r","e"," ","E","n","g","i","n","e","e","r","\n","\n","E","D","U","C","A","T","I","O","N","\n","B","S"," ","C","S","\n","G","P","A",":"," ","3",".","8","\n","S","K","I","L","L","S","\n","P","y","t","h","o","n">>

LINK_LINKEDIN == <<"h","t","t","p","s",":","/","/","l","i","n","k","e","d","i","n",".","c","o","m","/","i","n","/","j","a","n","e","d","o","e">>

LINK_SHARE == <<"h","t","t","p",":","/","/","l","i","n","k","e","d","i","n",".","c","o","m","/","s","h","a","r","e","?","u","=","f","a","c","e","b","o","o","k",".","c","o","m","/","x">>

LINK_FACEBOOK == <<"h","t","t","p",":","/","/","f","a","c","e","b","o","o","k",".","c","o","m","/","y">>

LINK_TWITTER == <<"t","w","i","t","t","e","r",".","c","o","m","/","t">>

LinkPool == {LINK_LINKEDIN, LINK_SHARE, LINK_FACEBOOK, LINK_TWITTER}

FILE_A == <<"a",".","p","d","f">>

FILE_B == <<"b",".","p","d","f">>

FILE_C == <<"c",".","v","2",".","p","d","f">>

FILE_D == <<"d",".","p","d","f">>

FILE_NOTES == <<"n","o","t","e","s",".","t","x","t">>

\* the files a directory may hold: readable resumes, files PyPDF2 cannot read,
\* and a file that is no .pdf
FilePool ==
    { [name |-> FILE_A, corrupt |-> FALSE, text |-> SpecExample, links |-> <<>>],
      [name |-> FILE_B, corrupt |-> TRUE, text |-> <<>>, links |-> <<>>],
      [name |-> FILE_C, corrupt |-> FALSE, text |-> BLOCK_WORK, links |-> <<LINK_SHARE, LINK_FACEBOOK>>],
      [name |-> FILE_D, corrupt |-> TRUE, text |-> <<>>, links |-> <<>>],
      [name |-> FILE_NOTES, corrupt |-> FALSE, text |-> BLOCK_NAME, links |-> <<>>] }

\* os.listdir: the files of the directory, each once, in any order
Listings ==
    {fs \in SeqsUpTo(FilePool, MaxFiles) :
        \A i, j \in 1..Len(fs) : i # j => fs[i] # fs[j]}

----------------------------------------------------------------------------
(* Specifications.                                                         *)

\* clean_section(header, text, next_header)
InitSection ==
    /\ pc = "ready"
    /\ header \in Headers
    /\ next_header \in NextHeaders
    /\ text \in {JoinLines(ls) : ls \in SeqsUpTo(SectionLines, MaxLines)}
    /\ year \in {2024}
    /\ links = <<>> /\ result = <<>> /\ files = <<>> /\ idx = 1 /\ saved = <<>>

CleanSection ==
    /\ pc = "ready"
    /\ result' = clean_section(header, text, next_header)
    /\ pc' = "done"
    /\ UNCHANGED <<text, links, year, header, next_header, files, idx, saved>>

SpecSection == InitSection /\ [][CleanSection]_vars

\* calculate_work_experience(text) in the calendar year `year`
InitTenure ==
    /\ pc = "ready"
    /\ text \in {Flatten(ps) : ps \in SeqsUpTo(TenurePieces, MaxPieces)} \cup {NotFound}
    /\ year \in Years
    /\ links = <<>> /\ header = <<>> /\ next_header = <<>>
    /\ result = <<>> /\ files = <<>> /\ idx = 1 /\ saved = <<>>

CalculateWorkExperience ==
    /\ pc = "ready"
    /\ result' = calculate_work_experience(text, year)
    /\ pc' = "done"
    /\ UNCHANGED <<text, links, year, header, next_header, files, idx, saved>>

SpecTenure == InitTenure /\ [][CalculateWorkExperience]_vars

\* parse_resume(text, links) in the calendar year `year`
ParseResume ==
    /\ pc = "ready"
    /\ result' = parse_resume(text, links, year)
    /\ pc' = "done"
    /\ UNCHANGED <<text, links, year, header, next_header, files, idx, saved>>

\* resumes of up to MaxBlocks blocks, with no link or one
InitParse ==
    /\ pc = "ready"
    /\ text \in {JoinLines(bs) : bs \in SeqsUpTo(ResumeBlocks, MaxBlocks)} \cup {SpecExample}
    /\ links \in {<<>>, <<LINK_LINKEDIN>>}
    /\ year \in Years
    /\ header = <<>> /\ next_header = <<>>
    /\ result = <<>> /\ files = <<>> /\ idx = 1 /\ saved = <<>>

SpecParse == InitParse /\ [][ParseResume]_vars

\* link lists of up to MaxLinks links, with and without a profile in the text
InitLinks ==
    /\ pc = "ready"
    /\ text \in {<<>>, BLOCK_LINKEDIN_TEXT}
    /\ links \in SeqsUpTo(LinkPool, MaxLinks)
    /\ year \in Years
    /\ header = <<>> /\ next_header = <<>>
    /\ result = <<>> /\ files = <<>> /\ idx = 1 /\ saved = <<>>

SpecLinks == InitLinks /\ [][ParseResume]_vars

\* process_all_pdfs over a directory listing
Init ==
    /\ pc = "loop"
    /\ files \in Listings
    /\ idx = 1
    /\ saved = <<>>
    /\ year \in Years
    /\ text = <<>> /\ links = <<>> /\ header = <<>> /\ next_header = <<>> /\ result = <<>>

\* one iteration on a .pdf file that can be read: extract, parse, save
ProcessFile ==
    /\ pc = "loop"
    /\ idx <= Len(files)
    /\ EndsWithPdf(files[idx].name)
    /\ ~Raises(files[idx])
    /\ LET json_path == JsonName(files[idx].name)
           parsed_resume == parse_resume(files[idx].text, files[idx].links, year)
       IN  saved' = [p \in DOMAIN saved \cup {json_path} |->
                        IF p = json_path THEN parsed_resume ELSE saved[p]]
    /\ idx' = idx + 1
    /\ UNCHANGED <<pc, text, links, year, header, next_header, result, files>>

\* one iteration on a file whose name does not end with .pdf
SkipFile ==
    /\ pc = "loop"
    /\ idx <= Len(files)
    /\ ~EndsWithPdf(files[idx].name)
    /\ idx' = idx + 1
    /\ UNCHANGED <<pc, text, links, year, header, next_header, result, files, saved>>

\* one iteration on a .pdf file that cannot be read: the exception leaves
\* the loop and the function
ReadFails ==
    /\ pc = "loop"
    /\ idx <= Len(files)
    /\ EndsWithPdf(files[idx].name)
    /\ Raises(files[idx])
    /\ pc' = "crashed"
    /\ UNCHANGED <<text, links, year, header, next_header, result, files, idx, saved>>

\* the listing is exhausted
Finish ==
    /\ pc = "loop"
    /\ idx > Len(files)
    /\ pc' = "done"
    /\ UNCHANGED <<text, links, year, header, next_header, result, files, idx, saved>>

Next == ProcessFile \/ SkipFile \/ ReadFails \/ Finish

Spec == Init /\ [][Next]_vars

----------------------------------------------------------------------------
(* Properties.                                                             *)

\* the characters a str of the model can hold
Char ==
    Upper \cup Lower \cup Digit
    \cup {" ", "\n", "\t", ".", ",", ":", "/", "?", "=", "@", "-", "_", "+", "%", "|", "(", ")"}

StringFields ==
    {"name", "job_title", "email", "phone", "linkedin", "facebook", "twitter", "education",
     "skills", "certifications", "career_objective", "gpa", "work_experience"}

TextFields ==
    {"name", "job_title", "email", "phone", "education", "skills", "certifications",
     "career_objective", "gpa", "work_experience"}

\* the normalized text contains <platform>.com/<handle> for platform k
HasTextPattern(t, k) ==
    \E i \in 1..Len(t) :
        /\ LitAt(social_media[k].url \o <<"/">>, t, i)
        /\ Ch(t, i + Len(social_media[k].url) + 1) \in WordChar

\* the text match <platform>.com/<handle>: the domain and the run of
\* non-blank characters after it
TextPattern(t, k) ==
    LET i == Find(t, social_media[k].url \o <<"/">>)
    IN  Slice(t, i, RunEnd(t, i, Char \ Space))

\* C1: when the text holds <platform>.com/<handle>, the platform's field is
\* that text match, whatever the hyperlink list holds.
C1_TextMatchWins ==
    pc = "done" =>
        \A k \in 1..Len(social_media) :
            HasTextPattern(unidecode(text), k) =>
                result[social_media[k].platform] = TextPattern(unidecode(text), k)

\* the position in lks of the first link that holds the url of platform k,
\* 0 when there is none
FirstLinkWith(lks, k) ==
    LET c == {j \in 1..Len(lks) : Contains(lks[j], social_media[k].url)}
    IN  IF c = {} THEN 0 ELSE Min(c)

\* C2 as stated: each platform without a text match gets the first link of the
\* list that holds its domain, also a link that holds the domain of another
\* platform; "Not found" only when no link holds its domain.
C2_FirstLinkPerPlatform ==
    pc = "done" =>
        \A k \in 1..Len(social_media) :
            ~HasTextPattern(unidecode(text), k) =>
                result[social_media[k].platform] =
                    IF FirstLinkWith(links, k) = 0 THEN NotFound
                    ELSE links[FirstLinkWith(links, k)]

\* the position of the link platform k adopts: the first link that holds its
\* url and that no earlier platform of social_media adopted; 0 when none
RECURSIVE AdoptedLink(_, _)
AdoptedLink(lks, k) ==
    LET taken == {AdoptedLink(lks, m) : m \in 1..(k - 1)}
        c == {j \in 1..Len(lks) : Contains(lks[j], social_media[k].url) /\ j \notin taken}
    IN  IF c = {} THEN 0 ELSE Min(c)

\* C2 amended: each platform without a text match gets the first link of the
\* list that holds its domain and was not adopted by an earlier platform
\* (linkedin, facebook, twitter in that order); "Not found" when there is no
\* such link.  A link is adopted by one platform at most.
C2_FirstUnadoptedLink ==
    pc = "done" =>
        \A k \in 1..Len(social_media) :
            ~HasTextPattern(unidecode(text), k) =>
                result[social_media[k].platform] =
                    IF AdoptedLink(links, k) = 0 THEN NotFound
                    ELSE links[AdoptedLink(links, k)]

\* a link that holds two domains went to linkedin, and facebook took the next
C2_Witness ==
    /\ pc = "done"
    /\ text = <<>>
    /\ links = <<LINK_SHARE, LINK_FACEBOOK>>
    /\ result.linkedin = LINK_SHARE
    /\ result.facebook = LINK_FACEBOOK

C4_AbsentHeaderGivesSentinel ==
    (pc = "done" /\ ~Contains(text, header)) => result = NotFound

\* next_header stands on a line of its own that starts after position j
OwnLineAfter(nh, t, j) ==
    /\ Ch(t, j) = "\n"
    /\ LitAt(nh, t, j + 1)
    /\ (j + Len(nh) = Len(t) \/ Ch(t, j + Len(nh) + 1) = "\n")

\* C5: with a next_header, the section runs from after the first occurrence of
\* the header to just before the next line that is exactly next_header (or to
\* the end of the text), trimmed, each run of newlines replaced by one space.
\* Stated for headers without a regular-expression metacharacter.
C5_SectionEndsAtOwnLine ==
    (/\ pc = "done"
     /\ next_header # <<>>
     /\ ~Contains(header, <<".">>)
     /\ ~Contains(next_header, <<".">>)
     /\ Contains(text, header)) =>
        LET from == Find(text, header) + Len(header)
            to == Min({j \in from..Len(text) : OwnLineAfter(next_header, text, j)}
                      \cup {Len(text) + 1})
        IN  result = CollapseNewlines(Strip(Slice(text, from, to - 1)))

\* the maximal runs of word characters of t, as <<first, last>>
Tokens(t) ==
    {ij \in (1..Len(t)) \X (1..Len(t)) :
        /\ ij[1] <= ij[2]
        /\ \A k \in ij[1]..ij[2] : t[k] \in WordChar
        /\ Ch(t, ij[1] - 1) \notin WordChar
        /\ Ch(t, ij[2] + 1) \notin WordChar}

\* the standalone 4-digit tokens
YearTokens(t) ==
    {ij \in Tokens(t) : ij[2] = ij[1] + 3 /\ \A k \in ij[1]..ij[2] : t[k] \in Digit}

TokenValue(t, ij) ==
    1000 * DigitVal(t[ij[1]]) + 100 * DigitVal(t[ij[1] + 1])
    + 10 * DigitVal(t[ij[1] + 2]) + DigitVal(t[ij[1] + 3])

RECURSIVE TokenSum(_, _)
TokenSum(t, S) ==
    IF S = {} THEN 0
    ELSE LET x == CHOOSE y \in S : TRUE
         IN  TokenValue(t, x) + TokenSum(t, S \ {x})

C7_ExampleAsStated ==
    (pc = "done" /\ text = SpecExample /\ links = <<>>) =>
        /\ result.name = <<"J","a","n","e"," ","D","o","e">>
        /\ result.gpa = <<"3",".","8">>
        /\ result.education = <<"B","S"," ","C","S">>
        /\ result.linkedin = NotFound

\* C7 amended: the example text with no links gives name "Jane Doe Software
\* Engineer" (the first two lines), gpa "3.8", education "BS CS " (the space
\* that stood for the newline before the GPA stays) and linkedin "Not found".
C7_Example ==
    (pc = "done" /\ text = SpecExample /\ links = <<>>) =>
        /\ result.name = <<"J","a","n","e"," ","D","o","e"," ","S","o","f","t","w","a","r","e"," ","E","n","g","i","n","e","e","r">>
        /\ result.gpa = <<"3",".","8">>
        /\ result.education = <<"B","S"," ","C","S"," ">>
        /\ result.linkedin = NotFound

C7_Witness ==
    /\ pc = "done"
    /\ text = SpecExample
    /\ links = <<>>
    /\ result.skills = <<"P","y","t","h","o","n">>

\* C8: no textual field of the record holds a newline.
C8_FieldsSingleLine ==
    pc = "done" => \A f \in TextFields : ~Contains(result[f], <<"\n">>)

\* C9: the education field holds no substring GPA: <digit>.<digits>.
C9_NoGpaInEducation ==
    pc = "done" => \A i \in 1..Len(result.education) : ~GpaAt(result.education, i)

\* C10: when process_all_pdfs has ended, the record of every readable .pdf
\* file of the directory is saved, and it is the record of that file's own
\* text and links, whatever the other files are.
C10_EveryReadableSaved ==
    pc \in {"done", "crashed"} =>
        \A i \in 1..Len(files) :
            (EndsWithPdf(files[i].name) /\ ~files[i].corrupt) =>
                /\ JsonName(files[i].name) \in DOMAIN saved
                /\ saved[JsonName(files[i].name)]
                       = parse_resume(files[i].text, files[i].links, year)

====
